---- MODULE Spec2Model ----
(***************************************************************************)
(* Model of py_run.py: the job-listing ETL (read_api -> transform_data ->  *)
(* save_to_csv -> upload_to_s3, driven by main).                           *)
(*                                                                         *)
(* Python values are modelled as follows.                                  *)
(*   - a str is a TLA+ string; the result of an expression that may be     *)
(*     None is PyStr(s) or PyNone;                                         *)
(*   - a JSON mapping is a record with one field per key the code reads;   *)
(*     a key that is absent holds << >> and a key that is present with     *)
(*     value v holds <<v>> (a key whose value is null behaves as an absent *)
(*     key under .get, which is the only way the code reads it);           *)
(*   - a JSON array is a sequence.                                         *)
(***************************************************************************)
EXTENDS Integers, Sequences, FiniteSets, TLC

VARIABLES pc, app_config, response, data, pos, df, table, file, upload,
          stdout, stderr, err, exit_status

vars == <<pc, app_config, response, data, pos, df, table, file, upload,
          stdout, stderr, err, exit_status>>

(***************************************************************************)
(* Bounds of the model.                                                    *)
(***************************************************************************)
MaxRecords == 4
MaxDateLen == 12

(***************************************************************************)
(* Python values and the primitives the code uses.                         *)
(***************************************************************************)
PyNone == <<"None">>
PyStr(s) == <<"str", s>>

IsStr(v) == Len(v) = 2 /\ v[1] = "str"

SliceEnd == 10

\* variant: the slice keeps one character more
PySlice_one_more(s, stop) ==
    SubSeq(s, 1, IF Len(s) < stop + 1 THEN Len(s) ELSE stop + 1)

\* s[:stop] on a str
PySlice(s, stop) == SubSeq(s, 1, IF Len(s) < stop THEN Len(s) ELSE stop)

\* sep in s, for a one-character sep
Contains(s, sep) == \E k \in 1..Len(s) : SubSeq(s, k, k) = sep

FirstIndex(s, sep) ==
    CHOOSE k \in 1..Len(s) :
        /\ SubSeq(s, k, k) = sep
        /\ \A j \in 1..(k - 1) : SubSeq(s, j, j) # sep

\* s.split(sep): splits at every occurrence of sep
RECURSIVE PySplit(_, _)
PySplit(s, sep) ==
    IF Contains(s, sep)
    THEN LET k == FirstIndex(s, sep)
         IN  <<SubSeq(s, 1, k - 1)>> \o PySplit(SubSeq(s, k + 1, Len(s)), sep)
    ELSE <<s>>

\* mapping.get(key): None when the key is absent
Get(field) == IF field = << >> THEN PyNone ELSE PyStr(field[1])

\* truthiness of job.get('company'): an absent key gives None, an empty
\* mapping is falsy as well
CompanyTruthy(job) ==
    /\ job.company # << >>
    /\ \/ job.company[1].name # << >>
       \/ job.company[1].id # << >>

\* truthiness of job.get('locations'): absent key or empty list is falsy
LocationsTruthy(job) ==
    /\ job.locations # << >>
    /\ Len(job.locations[1]) > 0

Exception(type, line) == [type |-> type, line |-> line]

Raise(type, line) == [ok |-> FALSE, err |-> Exception(type, line)]
Value(v) == [ok |-> TRUE, val |-> v]

(***************************************************************************)
(* One iteration of the loop of transform_data, line by line.              *)
(***************************************************************************)
\* line 69: job.get('publication_date')[:10]
publication_date(job) ==
    IF Get(job.publication_date) = PyNone
    THEN Raise("TypeError", 69)
    ELSE Value(PyStr(PySlice(job.publication_date[1], SliceEnd)))

\* variant of line 70: job.get('type', 'N/A')
job_type_default(job) == IF job.type = << >> THEN PyStr("N/A") ELSE PyStr(job.type[1])

\* line 70
job_type(job) == Get(job.type)

\* line 71
job_name(job) == Get(job.name)

\* variant of line 72: the test is 'company' in job
company_name_key_test(job) ==
    IF job.company # << >> THEN Get(job.company[1].name) ELSE PyStr("N/A")

\* line 72
company_name(job) ==
    IF CompanyTruthy(job) THEN Get(job.company[1].name) ELSE PyStr("N/A")

\* line 73
job_location(job) ==
    IF LocationsTruthy(job) THEN Get(job.locations[1][1].name) ELSE PyStr("N/A")

\* variant of line 74: a name without a comma is kept as the city
NoCommaDefault_keeps_name(s) == <<s, "N/A">>

\* line 74: job_city, job_country = ... ; the value is <<city, country>>
NoCommaDefault(s) == <<"N/A", "N/A">>

city_country(loc) ==
    IF loc = PyNone
    THEN Raise("TypeError", 74)
    ELSE IF Contains(loc[2], ",")
         THEN LET parts == PySplit(loc[2], ",")
              IN  IF Len(parts) = 2
                  THEN Value(<<parts[1], parts[2]>>)
                  ELSE Raise("ValueError", 74)
         ELSE Value(NoCommaDefault(loc[2]))

\* lines 69-80: the row built from one record, or the exception raised
transform_row(job) ==
    LET d  == publication_date(job)
        cc == city_country(job_location(job))
    IN  IF ~d.ok THEN d
        ELSE IF ~cc.ok THEN cc
        ELSE Value([publication_date |-> d.val,
                    job_type         |-> job_type(job),
                    job              |-> job_name(job),
                    company          |-> company_name(job),
                    city             |-> PyStr(cc.val[1]),
                    country          |-> PyStr(cc.val[2])])

\* variant of line 81: pd.concat([row, df], ignore_index=True)
concat_reversed(frame, row) == <<row>> \o frame

\* line 81: pd.concat([df, row], ignore_index=True)
concat(frame, row) == Append(frame, row)

\* variant of lines 85-87: the handler returns the rows built so far
transform_except_returns(frame) == [raised |-> FALSE, returned |-> <<frame>>]

\* lines 85-87: the handler of transform_data prints and re-raises; nothing
\* is returned
transform_except(frame) == [raised |-> TRUE, returned |-> << >>]

\* variant of line 28: the status is never looked at
raise_for_status_never(resp) == FALSE

\* line 28: response.raise_for_status() raises HTTPError for a client error
\* (4xx) or a server error (5xx) status and for no other status
raise_for_status(resp) == resp.status >= 400 /\ resp.status < 600

(***************************************************************************)
(* Inputs: the records of the API, the responses, the configuration.       *)
(***************************************************************************)
Example == "2023-05-01T12:00:00Z"

DateStrings == {SubSeq(Example, 1, n) : n \in 0..MaxDateLen} \cup {Example}

Opt(S) == {<< >>} \cup {<<v>> : v \in S}

Companies == [name : Opt({"Acme"}), id : Opt({"42"})]

LocationNames == {"Remote", "Austin,USA", "New York, NY, USA", ", USA"}

Locations == [name : Opt(LocationNames)]

\* locations after the first: one without a name, one with two commas
LaterLocations == [name : Opt({"Paris, Ile-de-France, France"})]

LocationLists ==
    {<< >>} \cup {<<l>> : l \in Locations}
            \cup {<<l, m>> : l \in Locations, m \in LaterLocations}

Jobs == [publication_date : Opt(DateStrings),
         type             : Opt({"external"}),
         name             : Opt({"Data Engineer"}),
         company          : Opt(Companies),
         locations        : Opt(LocationLists)]

\* the records used in collections of more than one record
PipelineJobs ==
    {j \in Jobs :
        /\ j.publication_date \in {<< >>, <<Example>>}
        /\ j.type # << >> /\ j.name # << >>
        /\ j.company \in {<< >>, <<[name |-> <<"Acme">>, id |-> <<"42">>]>>}
        /\ j.locations \in {<<<<[name |-> <<"Austin,USA">>]>>>>,
                             <<<<[name |-> <<"New York, NY, USA">>]>>>>}}

RECURSIVE SeqsUpTo(_, _)
SeqsUpTo(S, n) ==
    IF n = 0 THEN {<< >>}
    ELSE LET shorter == SeqsUpTo(S, n - 1)
         IN  shorter \cup {Append(q, x) : q \in {r \in shorter : Len(r) = n - 1}, x \in S}

Collections == SeqsUpTo(PipelineJobs, MaxRecords) \cup {<<j>> : j \in Jobs}

\* the parsed body of a response: a mapping with or without the key 'results'
Bodies == {[hasResults |-> FALSE, results |-> << >>]}
          \cup {[hasResults |-> TRUE, results |-> c] : c \in Collections}

NoData == [hasResults |-> FALSE, results |-> << >>]

Statuses == {200, 300, 404, 500}

\* config.toml: missing or unparsable, or with or without the keys read
Configs == {[loaded |-> FALSE, api_url |-> FALSE, aws |-> FALSE]}
           \cup [loaded : {TRUE}, api_url : BOOLEAN, aws : BOOLEAN]

NoConfig == [loaded |-> FALSE, api_url |-> FALSE, aws |-> FALSE]

NoResponse == [kind |-> "none", status |-> 0]

NoFile == [state |-> "absent", rows |-> << >>]

(***************************************************************************)
(* The state after the interpreter has loaded the module, before main.     *)
(***************************************************************************)
Init ==
    /\ pc = "load_config"
    /\ app_config = NoConfig
    /\ response = NoResponse
    /\ data = NoData
    /\ pos = 0
    /\ df = << >>
    /\ table = << >>
    /\ file = NoFile
    /\ upload = "not_invoked"
    /\ stdout = << >>
    /\ stderr = << >>
    /\ err = << >>
    /\ exit_status = << >>

\* an exception that reaches the handler of main (lines 169-171): the
\* stages that caught it on the way have printed their diagnostic, main
\* prints its own and re-raises, and the interpreter exits with status 1
Propagate(diagnostics, e) ==
    /\ err' = <<e>>
    /\ stderr' = stderr \o diagnostics \o <<"main">>
    /\ exit_status' = <<1>>
    /\ pc' = "exited"

\* lines 149-152
LoadConfig ==
    /\ pc = "load_config"
    /\ \E cfg \in Configs :
          IF cfg.loaded /\ cfg.api_url
          THEN /\ app_config' = cfg
               /\ stdout' = Append(stdout, "Reading the API....")
               /\ pc' = "read_api"
               /\ UNCHANGED <<stderr, err, exit_status>>
          ELSE /\ Propagate(<< >>, IF cfg.loaded THEN Exception("KeyError", 150)
                                                   ELSE Exception("FileNotFoundError", 149))
               /\ UNCHANGED <<app_config, stdout>>
    /\ UNCHANGED <<response, data, pos, df, table, file, upload>>

\* lines 153-154 and 26-36. A connection failure and an unparsable body
\* raise a RequestException whose response is None, so the handler of
\* read_api fails on err.response.status_code before it has printed.
read_api ==
    /\ pc = "read_api"
    /\ \/ /\ response' = [kind |-> "conn_error", status |-> 0]
          /\ Propagate(<< >>, Exception("AttributeError", 33))
          /\ UNCHANGED <<data, stdout>>
       \/ \E st \in Statuses, parsable \in BOOLEAN, body \in Bodies :
             /\ response' = [kind |-> "http", status |-> st]
             /\ IF raise_for_status(response')
                THEN /\ Propagate(<<"read_api">>, Exception("HTTPError", 28))
                     /\ UNCHANGED <<data, stdout>>
                ELSE IF ~parsable
                THEN /\ Propagate(<< >>, Exception("AttributeError", 33))
                     /\ UNCHANGED <<data, stdout>>
                ELSE /\ data' = body
                     /\ stdout' = Append(stdout, "API Done Reading!")
                     /\ pc' = "transform_data"
                     /\ UNCHANGED <<stderr, err, exit_status>>
    /\ UNCHANGED <<app_config, pos, df, table, file, upload>>

\* lines 156-157 and 59-65: the call and the empty DataFrame
transform_data ==
    /\ pc = "transform_data"
    /\ stdout' = Append(stdout, "Building DataFrame..")
    /\ df' = << >>
    /\ pos' = 0
    /\ pc' = "loop"
    /\ UNCHANGED <<app_config, response, data, table, file, upload,
                   stderr, err, exit_status>>

\* what leaves transform_data when the loop raises (lines 85-87)
LoopRaises(e) ==
    LET out == transform_except(df)
    IN  IF out.raised
        THEN /\ Propagate(<<"transform_data">>, e)
             /\ UNCHANGED table
        ELSE /\ table' = out.returned
             /\ pc' = "save_to_csv"
             /\ UNCHANGED <<stderr, err, exit_status>>

\* lines 68-81: data['results'] is looked up (KeyError when absent) and one
\* record is turned into a row
loop ==
    /\ pc = "loop"
    /\ IF ~data.hasResults
       THEN /\ LoopRaises(Exception("KeyError", 68))
            /\ UNCHANGED <<pos, df>>
       ELSE /\ pos < Len(data.results)
            /\ LET r == transform_row(data.results[pos + 1])
               IN  IF r.ok
                   THEN /\ df' = concat(df, r.val)
                        /\ pos' = pos + 1
                        /\ UNCHANGED <<pc, table, stderr, err, exit_status>>
                   ELSE /\ LoopRaises(r.err)
                        /\ UNCHANGED <<pos, df>>
    /\ UNCHANGED <<app_config, response, data, file, upload, stdout>>

\* line 83: the iteration is exhausted and the DataFrame is returned
transform_return ==
    /\ pc = "loop"
    /\ data.hasResults
    /\ pos = Len(data.results)
    /\ table' = <<df>>
    /\ pc' = "save_to_csv"
    /\ UNCHANGED <<app_config, response, data, pos, df, file, upload,
                   stdout, stderr, err, exit_status>>

\* lines 159-161 and 104-109: to_csv writes the whole file or raises,
\* leaving no file or a truncated one
save_to_csv ==
    /\ pc = "save_to_csv"
    /\ stdout' = Append(stdout, "DataFrame saved to local file called jobs.csv")
    /\ \/ /\ file' = [state |-> "complete", rows |-> table[1]]
          /\ pc' = "upload_to_s3"
          /\ UNCHANGED <<stderr, err, exit_status>>
       \/ /\ file' \in {NoFile, [state |-> "partial", rows |-> << >>]}
          /\ Propagate(<<"save_to_csv">>, Exception("OSError", 105))
    /\ UNCHANGED <<app_config, response, data, pos, df, table, upload>>

\* lines 163-167 and 129-137: the aws keys are read (KeyError when absent),
\* then subprocess.run starts the command and waits for it; its return
\* code is not looked at
upload_to_s3 ==
    /\ pc = "upload_to_s3"
    /\ IF ~app_config.aws
       THEN /\ stdout' = Append(stdout, "Uploading to AWS S3....")
            /\ Propagate(<< >>, Exception("KeyError", 164))
            /\ UNCHANGED upload
       ELSE \E outcome \in {"not_started", "exit_zero", "exit_nonzero"} :
              /\ upload' = outcome
              /\ IF outcome = "not_started"
                 THEN /\ stdout' = Append(stdout, "Uploading to AWS S3....")
                      /\ Propagate(<<"upload_to_s3">>,
                                   Exception("FileNotFoundError", 131))
                 ELSE /\ stdout' = stdout \o <<"Uploading to AWS S3....",
                                                "File Uploading Done!">>
                      /\ exit_status' = <<0>>
                      /\ pc' = "exited"
                      /\ UNCHANGED <<stderr, err>>
    /\ UNCHANGED <<app_config, response, data, pos, df, table, file>>

Next ==
    \/ LoadConfig
    \/ read_api
    \/ transform_data
    \/ loop
    \/ transform_return
    \/ save_to_csv
    \/ upload_to_s3

Spec == Init /\ [][Next]_vars

(***************************************************************************)
(* Vocabulary of the properties.                                           *)
(***************************************************************************)
Results == data.results

Printed(message) == \E n \in 1..Len(stdout) : stdout[n] = message

\* the loop of transform_data raised on record pos + 1
LoopFailed ==
    /\ data.hasResults
    /\ pc = "exited"
    /\ stderr = <<"transform_data", "main">>

FailedRecord == Results[pos + 1]

HasDate(job) == job.publication_date # << >>

\* the first location exists and has a name
HasFirstName(job) ==
    /\ job.locations # << >>
    /\ Len(job.locations[1]) > 0
    /\ job.locations[1][1].name # << >>

FirstName(job) == job.locations[1][1].name[1]

CommaCount(s) == Cardinality({n \in 1..Len(s) : SubSeq(s, n, n) = ","})

\* the three cases without a usable "city, country" name
NoCommaCase(job) ==
    \/ job.locations = << >>
    \/ job.locations = << << >> >>
    \/ HasFirstName(job) /\ CommaCount(FirstName(job)) = 0

EmptyMapping == [name |-> << >>, id |-> << >>]

\* C1: when every record of data['results'] extracts successfully and
\* transform_data is over, the returned table has as many rows as there are
\* records and row i is the extraction of record i.
C1_RowsMatchRecords ==
    ( /\ data.hasResults
      /\ pc \in {"save_to_csv", "upload_to_s3", "exited"}
      /\ \A n \in 1..Len(Results) : transform_row(Results[n]).ok )
    => /\ table # << >>
       /\ Len(table[1]) = Len(Results)
       /\ \A n \in 1..Len(Results) : table[1][n] = transform_row(Results[n]).val

C1_Witness ==
    /\ table # << >>
    /\ Len(Results) = 3
    /\ Len(table[1]) = 3
    /\ table[1][1] # table[1][2]
    /\ table[1][2] = table[1][3]

\* C2: when extraction of some record of the collection fails, no table is
\* ever returned, saved or uploaded, whatever was accumulated, and the
\* exception reaches the caller, which ends the run.
C2_AllOrNothing ==
    ( /\ data.hasResults
      /\ \E n \in 1..Len(Results) : ~transform_row(Results[n]).ok )
    => /\ table = << >>
       /\ file = NoFile
       /\ upload = "not_invoked"
       /\ pc \in {"transform_data", "loop", "exited"}
       /\ pc = "exited" => /\ LoopFailed
                           /\ exit_status = <<1>>
                           /\ ~transform_row(FailedRecord).ok

C2_Witness ==
    /\ LoopFailed
    /\ Len(Results) = 4
    /\ Len(df) = 3
    /\ ~HasDate(Results[4])
    /\ table = << >>
    /\ file = NoFile

\* C3: a record (with a publication_date) whose first location's name
\* contains a comma extracts successfully, city being the text before the
\* first comma and country all the text after it.
C3_SplitOnFirstComma ==
    /\ \A n \in 1..Len(df) :
          (HasFirstName(Results[n]) /\ CommaCount(FirstName(Results[n])) > 0)
          => LET s == FirstName(Results[n])
                 c == FirstIndex(s, ",")
             IN  /\ df[n].city = PyStr(SubSeq(s, 1, c - 1))
                 /\ df[n].country = PyStr(SubSeq(s, c + 1, Len(s)))
    /\ LoopFailed =>
          ~ /\ HasDate(FailedRecord)
            /\ HasFirstName(FailedRecord)
            /\ CommaCount(FirstName(FailedRecord)) > 0

\* C4 as stated: company is "N/A" when the key is absent, None when the
\* mapping is present without a name (the empty mapping included), and the
\* name otherwise.
C4_EmptyMappingGivesNone ==
    \A n \in 1..Len(df) :
        LET c == Results[n].company
        IN  /\ c = << >> => df[n].company = PyStr("N/A")
            /\ (c # << >> /\ c[1].name = << >>) => df[n].company = PyNone
            /\ (c # << >> /\ c[1].name # << >>)
                   => df[n].company = PyStr(c[1].name[1])

\* C4 as amended: company is "N/A" when the key is absent or the mapping is
\* empty, None when the mapping is non-empty and has no name, and the name
\* verbatim otherwise.
C4_CompanyLevels ==
    \A n \in 1..Len(df) :
        LET c == Results[n].company
        IN  /\ (c = << >> \/ c = <<EmptyMapping>>) => df[n].company = PyStr("N/A")
            /\ (c # << >> /\ c[1].name = << >> /\ c[1] # EmptyMapping)
                   => df[n].company = PyNone
            /\ (c # << >> /\ c[1].name # << >>)
                   => df[n].company = PyStr(c[1].name[1])

C4_Witness ==
    /\ table # << >>
    /\ \E n \in 1..Len(df) :
          /\ Results[n].company = <<EmptyMapping>>
          /\ table[1][n].company = PyStr("N/A")

\* C5: a record without publication_date fails, and a record with one
\* extracts successfully whichever other fields are absent (records whose
\* first location's name has several commas are left out: no field of
\* theirs is absent).
C5_OnlyPublicationDateRequired ==
    /\ \A n \in 1..Len(df) : HasDate(Results[n])
    /\ LoopFailed =>
          \/ ~HasDate(FailedRecord)
          \/ HasFirstName(FailedRecord) /\ CommaCount(FirstName(FailedRecord)) > 1

\* C6 as stated: every field of every row of the returned table is a string.
C6_EveryFieldIsString ==
    table # << >> =>
        \A n \in 1..Len(table[1]) :
            /\ IsStr(table[1][n].publication_date)
            /\ IsStr(table[1][n].job_type)
            /\ IsStr(table[1][n].job)
            /\ IsStr(table[1][n].company)
            /\ IsStr(table[1][n].city)
            /\ IsStr(table[1][n].country)

\* C6 as amended: publication_date, city and country of every row of the
\* returned table are strings; job_type is None exactly when type is absent,
\* job is None exactly when name is absent, company is None exactly when
\* the company mapping is non-empty and has no name, and each is a string
\* otherwise.
C6_StringOrNone ==
    table # << >> =>
        \A n \in 1..Len(table[1]) :
            LET row == table[1][n]
                job == Results[n]
            IN  /\ IsStr(row.publication_date)
                /\ IsStr(row.city)
                /\ IsStr(row.country)
                /\ IF job.type = << >>
                   THEN row.job_type = PyNone ELSE IsStr(row.job_type)
                /\ IF job.name = << >>
                   THEN row.job = PyNone ELSE IsStr(row.job)
                /\ IF /\ job.company # << >>
                      /\ job.company[1].name = << >>
                      /\ job.company[1] # EmptyMapping
                   THEN row.company = PyNone ELSE IsStr(row.company)

C6_Witness ==
    /\ table # << >>
    /\ \E n \in 1..Len(table[1]) :
          /\ Results[n].type = << >>
          /\ table[1][n].job_type = PyNone
          /\ table[1][n].company = PyNone

\* C7: when locations is absent or empty, or the first location's name has
\* no comma, city and country are both "N/A"; the location lines do not
\* raise (a record that has a publication_date extracts successfully), and
\* the locations after the first make no difference.
C7_NoCommaGivesNA ==
    /\ \A n \in 1..Len(df) :
          NoCommaCase(Results[n])
          => /\ df[n].city = PyStr("N/A")
             /\ df[n].country = PyStr("N/A")
    /\ (LoopFailed /\ NoCommaCase(FailedRecord))
          => /\ ~HasDate(FailedRecord)
             /\ err = <<Exception("TypeError", 69)>>

C7_Witness ==
    /\ table # << >>
    /\ \E n \in 1..Len(df) :
          /\ Results[n].locations =
                << <<[name |-> <<"Remote">>],
                     [name |-> <<"Paris, Ile-de-France, France">>]>> >>
          /\ table[1][n].city = PyStr("N/A")
          /\ table[1][n].country = PyStr("N/A")

\* the stages start in order, each after the earlier ones have completed
\* without error; the upload command runs only on a completely written file
StagesInOrder ==
    /\ response.kind # "none" => app_config.loaded /\ app_config.api_url
    /\ Printed("Building DataFrame..")
          => /\ Printed("API Done Reading!")
             /\ response.kind = "http"
    /\ (df # << >> \/ table # << >> \/ pc = "loop") => Printed("Building DataFrame..")
    /\ Printed("DataFrame saved to local file called jobs.csv") => table # << >>
    /\ file # NoFile => Printed("DataFrame saved to local file called jobs.csv")
    /\ Printed("Uploading to AWS S3....") => file.state = "complete"
    /\ upload # "not_invoked"
          => /\ file.state = "complete"
             /\ file.rows = table[1]
             /\ Printed("Uploading to AWS S3....")
    /\ err # << >> => pc = "exited" /\ exit_status = <<1>>

NothingAfterFetch ==
    /\ pc = "exited"
    /\ exit_status = <<1>>
    /\ ~Printed("Building DataFrame..")
    /\ df = << >>
    /\ table = << >>
    /\ file = NoFile
    /\ upload = "not_invoked"

C9_NoPartialSuccess ==
    /\ (Printed("File Uploading Done!") \/ exit_status = <<0>>)
          => /\ upload = "exit_zero"
             /\ file.state = "complete"
             /\ err = << >>
    /\ (pc = "exited" /\ (err # << >> \/ upload \in {"not_started", "exit_nonzero"}))
          => /\ stderr # << >>
             /\ exit_status = <<1>>

\* C10: the extracted publication_date is the first 10 characters of the
\* raw string, or the whole string when it is shorter; line 69 does not
\* raise on a short string.
C10_DatePrefix ==
    /\ \A n \in 1..Len(df) :
          LET s == Results[n].publication_date[1]
              d == df[n].publication_date
          IN  /\ IsStr(d)
              /\ Len(d[2]) = (IF Len(s) >= 10 THEN 10 ELSE Len(s))
              /\ \A c \in 1..Len(d[2]) : SubSeq(d[2], c, c) = SubSeq(s, c, c)
    /\ (LoopFailed /\ HasDate(FailedRecord)) => err[1].line # 69

C10_Witness ==
    /\ table # << >>
    /\ \E n \in 1..Len(df) :
          /\ Results[n].publication_date = <<"2023-05">>
          /\ table[1][n].publication_date = PyStr("2023-05")

====
